---- MODULE Spec2Model ----
(***************************************************************************)
(* django-if-active: the ActiveViewMiddleware hook (src/__init__.py) and   *)
(* the ifactive / activeif template tags                                   *)
(* (src/templatetags/if_active.py), as a state machine.                    *)
(*                                                                         *)
(* Python values are modelled as follows.                                  *)
(*   None            the empty sequence <<>>; a present value x is <<x>>   *)
(*   dict            a set of <<key, value>> pairs with distinct keys      *)
(*   list / tuple    [type |-> "list" or "tuple", items |-> sequence]      *)
(*   str             a TLA+ string                                         *)
(*   function object a string naming it (identity is equality of names)    *)
(***************************************************************************)
EXTENDS Naturals, Sequences, FiniteSets

VARIABLES routes, _view_name_cache, walks, stash, hooked, node, last

vars == <<routes, _view_name_cache, walks, stash, hooked, node, last>>

(***************************************************************************)
(* Bounds of the model.                                                    *)
(***************************************************************************)
\* nodes (patterns and nested resolvers) in the route table, SpecMap
MaxNodes == 3
\* nodes in the route table in the specifications that also render
MaxRouteNodes == 2
\* positional arguments of a request or of a tag
MaxArgs == 2

(***************************************************************************)
(* Python's None and dict.                                                 *)
(***************************************************************************)
None == <<>>

Some(x) == <<x>>

DictKeys(d) == {p[1] : p \in d}

DictGet(d, k) == (CHOOSE p \in d : p[1] = k)[2]

\* d[k] = v
DictSet(d, k, v) == {p \in d : p[1] # k} \cup {<<k, v>>}

\* d.update(e): the keys of e are set in d, e wins on a shared key
DictUpdate(d, e) == {p \in d : p[1] \notin DictKeys(e)} \cup e

\* every dict with keys among K and values among V
Dicts(K, V) == UNION {[S -> V] : S \in SUBSET K}

AsDict(f) == {<<k, f[k]>> : k \in DOMAIN f}

DictsOver(K, V) == {AsDict(f) : f \in Dicts(K, V)}

(***************************************************************************)
(* The route table: a tree of RegexURLPattern and RegexURLResolver.        *)
(***************************************************************************)
\* the view functions of the project; get_callable maps an import path to one
Views == {"v1", "v2"}

get_callable(path) == IF path = "pkg.v1" THEN "v1" ELSE "v2"

\* the keys and values of the keyword arguments
KwKeys == {"a", "b"}

KwVals == {"1", "2"}

\* RegexURLPattern(regex, callback, default_args, name)
Pattern(name, callback_str, callback, default_args) ==
    [kind |-> "pattern", name |-> name, callback_str |-> callback_str,
     callback |-> callback, default_args |-> default_args]

\* RegexURLResolver(regex, urlconf, default_kwargs)
Resolver(default_kwargs, url_patterns) ==
    [kind |-> "resolver", default_kwargs |-> default_kwargs,
     url_patterns |-> url_patterns]

isinstance_RegexURLResolver(pattern) == pattern.kind = "resolver"

RECURSIVE NodeCount(_)
\* the patterns and nested resolvers below a resolver
NodeCount(resolver) ==
    LET RECURSIVE Sum(_)
        Sum(i) == IF i = 0 THEN 0
                  ELSE LET c == resolver.url_patterns[i]
                       IN  Sum(i - 1) + 1 +
                           (IF isinstance_RegexURLResolver(c) THEN NodeCount(c) ELSE 0)
    IN  Sum(Len(resolver.url_patterns))

RECURSIVE ResolverPaths(_)
\* the index paths (from the root) of the resolvers of the tree, the root's is <<>>
ResolverPaths(resolver) ==
    {<<>>} \cup
    UNION {{<<i>> \o p : p \in ResolverPaths(resolver.url_patterns[i])} :
             i \in {j \in 1..Len(resolver.url_patterns) :
                      isinstance_RegexURLResolver(resolver.url_patterns[j])}}

RECURSIVE AppendAt(_, _, _)
\* the tree with entry n appended to the url_patterns of the resolver at path
AppendAt(resolver, path, n) ==
    IF path = <<>>
    THEN [resolver EXCEPT !.url_patterns = Append(@, n)]
    ELSE [resolver EXCEPT !.url_patterns[Head(path)] = AppendAt(@, Tail(path), n)]

(***************************************************************************)
(* _get_patterns_map                                                       *)
(***************************************************************************)
\* lines 107 and 110/113 without the copy: pattern_args is default_args itself
CopyAndUpdateNoCopy(default_args, other) ==
    [pattern_args |-> DictUpdate(default_args, other),
     default_args |-> DictUpdate(default_args, other)]

\* pattern_args = default_args.copy(); pattern_args.update(other):
\* the new dict, and the caller's dict as it is afterwards
CopyAndUpdate(default_args, other) ==
    [pattern_args |-> DictUpdate(default_args, other),
     default_args |-> default_args]

\* lines 115-121 with setdefault in place of assignment: a key already in the
\* map keeps its entry
PatternEntriesKeepFirst(patterns_map, pattern, pattern_args) ==
    LET m1 == IF pattern.name # None /\ pattern.name[1] \notin DictKeys(patterns_map)
              THEN DictSet(patterns_map, pattern.name[1],
                           <<pattern.callback, pattern_args>>)
              ELSE patterns_map
    IN  IF pattern.callback_str # None /\ pattern.callback_str[1] \notin DictKeys(m1)
        THEN DictSet(m1, pattern.callback_str[1], <<pattern.callback, pattern_args>>)
        ELSE m1

\* lines 115-121 without lines 119-121: only the name is a key
PatternEntriesNameOnly(patterns_map, pattern, pattern_args) ==
    IF pattern.name # None
    THEN DictSet(patterns_map, pattern.name[1], <<pattern.callback, pattern_args>>)
    ELSE patterns_map

\* lines 115-121: the entries a RegexURLPattern sets in patterns_map
PatternEntries(patterns_map, pattern, pattern_args) ==
    LET m1 == IF pattern.name # None
              THEN DictSet(patterns_map, pattern.name[1],
                           <<pattern.callback, pattern_args>>)
              ELSE patterns_map
    IN  IF pattern.callback_str # None
        THEN DictSet(m1, pattern.callback_str[1], <<pattern.callback, pattern_args>>)
        ELSE m1

RECURSIVE _get_patterns_map_from(_, _, _, _)
\* the for loop of _get_patterns_map from url_patterns[i] on; the result is
\* the map and the caller's default_args dict as the loop leaves it
_get_patterns_map_from(resolver, i, patterns_map, default_args) ==
    IF i > Len(resolver.url_patterns)
    THEN [patterns_map |-> patterns_map, default_args |-> default_args]
    ELSE LET pattern == resolver.url_patterns[i]
         IN  IF isinstance_RegexURLResolver(pattern)
             THEN LET pa  == CopyAndUpdate(default_args, pattern.default_kwargs)
                      sub == _get_patterns_map_from(pattern, 1, {}, pa.pattern_args)
                  IN  _get_patterns_map_from(resolver, i + 1,
                          DictUpdate(patterns_map, sub.patterns_map), pa.default_args)
             ELSE LET pa == CopyAndUpdate(default_args, pattern.default_args)
                  IN  _get_patterns_map_from(resolver, i + 1,
                          PatternEntries(patterns_map, pattern, pa.pattern_args),
                          pa.default_args)

\* _get_patterns_map(resolver, default_args=None)
_get_patterns_map(resolver, default_args) ==
    _get_patterns_map_from(resolver, 1, {},
                          IF default_args = None THEN {} ELSE default_args[1])

(***************************************************************************)
(* _get_view_and_default_args and the module-level _view_name_cache        *)
(***************************************************************************)
\* line 136 without the "is None" test: the map is built on every lookup
_get_view_and_default_args_rebuild(view_name, cache, resolver, nwalks) ==
    LET built == _get_patterns_map(resolver, None).patterns_map
    IN  IF view_name \in DictKeys(built)
        THEN [outcome |-> "ok", ret |-> Some(DictGet(built, view_name)),
              cache |-> Some(built), walks |-> nwalks + 1]
        ELSE [outcome |-> "KeyError", ret |-> None,
              cache |-> Some(built), walks |-> nwalks + 1]

\* _get_view_and_default_args(view_name) with the global _view_name_cache as
\* cache and get_resolver(None) as resolver; nwalks counts the calls of
\* _get_patterns_map on the route table. The result is what is returned or
\* raised and the cache and the count afterwards.
_get_view_and_default_args(view_name, cache, resolver, nwalks) ==
    LET fresh == cache = None
        built == IF fresh THEN _get_patterns_map(resolver, None).patterns_map
                 ELSE cache[1]
        w     == IF fresh THEN nwalks + 1 ELSE nwalks
    IN  IF view_name \in DictKeys(built)
        THEN [outcome |-> "ok", ret |-> Some(DictGet(built, view_name)),
              cache |-> Some(built), walks |-> w]
        ELSE [outcome |-> "KeyError", ret |-> None,
              cache |-> Some(built), walks |-> w]

(***************************************************************************)
(* ActiveViewMiddleware.process_view                                       *)
(***************************************************************************)
Requests == {"r1", "r2"}

\* list(x)
list(x) == [type |-> "list", items |-> x.items]

PyTuple(items) == [type |-> "tuple", items |-> items]

PyList(items) == [type |-> "list", items |-> items]

\* line 8 without list(): the tuple itself is stored
process_view_no_list(attrs, request, view_func, view_args, view_kwargs) ==
    [attrs EXCEPT ![request] = Some([_view_func |-> view_func,
                                      _view_args |-> view_args,
                                      _view_kwargs |-> view_kwargs])]

\* process_view(self, request, view_func, view_args, view_kwargs): the
\* attributes of every request object afterwards
process_view(attrs, request, view_func, view_args, view_kwargs) ==
    [attrs EXCEPT ![request] = Some([_view_func |-> view_func,
                                      _view_args |-> list(view_args),
                                      _view_kwargs |-> view_kwargs])]

\* getattr(request, '_view_func', None), request being any context value
getattr_view_func(attrs, request) ==
    IF request \in Requests /\ attrs[request] # None
    THEN Some(attrs[request][1]._view_func)
    ELSE None

(***************************************************************************)
(* The template engine: contexts, variables, filter expressions.           *)
(***************************************************************************)
\* settings.TEMPLATE_STRING_IF_INVALID
TEMPLATE_STRING_IF_INVALID == ""

\* the quoted literals among the expression texts; any other text is a name
Literals == {"'1'", "'2'"}

\* Variable(text).resolve(context): a quoted literal is its string, a name is
\* looked up in the context and may be missing
VariableResolve(text, context) ==
    IF text \in Literals
    THEN [found |-> TRUE, value |-> IF text = "'1'" THEN "1" ELSE "2"]
    ELSE IF text \in DictKeys(context)
         THEN [found |-> TRUE, value |-> DictGet(context, text)]
         ELSE [found |-> FALSE, value |-> ""]

\* parser.compile_filter(text).resolve(context): a missing variable resolves
\* to TEMPLATE_STRING_IF_INVALID
FilterResolve(text, context) ==
    LET r == VariableResolve(text, context)
    IN  IF r.found THEN r.value ELSE TEMPLATE_STRING_IF_INVALID

\* [arg.resolve(context) for arg in args]
ResolveArgs(args, context) ==
    PyList([i \in 1..Len(args) |-> FilterResolve(args[i], context)])

\* dict([(k, v.resolve(context)) for k, v in kwargs.items()])
ResolveKwargs(kwargs, context) ==
    {<<p[1], FilterResolve(p[2], context)>> : p \in kwargs}

(***************************************************************************)
(* _parse_url_args. A word of token.contents.split(' ') is                 *)
(* [text |-> the word, args |-> word.split(",")], and an arg is            *)
(* [eq |-> '=' in arg, k |-> the text before the first '=', v |-> the text *)
(* after it (the whole arg when it holds no '=')]. The text is spelled out  *)
(* for the words read as names; of a bit only the split is read. The keys  *)
(* of the model hold no white space, so k.strip() leaves them as they are. *)
(***************************************************************************)
AsciiKeys == KwKeys

\* a keyword name that smart_str(k, 'ascii') cannot encode
NonAsciiKey == "k_e_acute"

\* lines 154-159: one arg of one bit
ParseArg(acc, arg) ==
    IF acc.outcome # "ok" THEN acc
    ELSE IF arg.eq
         THEN IF arg.k \in AsciiKeys
              THEN [acc EXCEPT !.kwargs = DictSet(@, arg.k, arg.v)]
              ELSE [acc EXCEPT !.outcome = "UnicodeEncodeError"]
         ELSE IF arg.v # ""
              THEN [acc EXCEPT !.args = Append(@, arg.v)]
              ELSE acc

RECURSIVE ParseArgsOf(_, _, _)
\* the inner loop of line 153 from bit.split(",")[i] on
ParseArgsOf(acc, bitargs, i) ==
    IF i > Len(bitargs) THEN acc
    ELSE ParseArgsOf(ParseArg(acc, bitargs[i]), bitargs, i + 1)

RECURSIVE ParseBits(_, _, _)
\* the outer loop of line 152 from bits[i] on
ParseBits(acc, bits, i) ==
    IF i > Len(bits) THEN acc
    ELSE ParseBits(ParseArgsOf(acc, bits[i].args, 1), bits, i + 1)

\* _parse_url_args(parser, bits)
_parse_url_args(bits) ==
    ParseBits([outcome |-> "ok", args |-> <<>>, kwargs |-> {}], bits, 1)

(***************************************************************************)
(* do_ifactive, do_activeif, ActiveNode                                    *)
(***************************************************************************)
\* ActiveNode.__init__
ActiveNode(tag, request_var, view_name, args, kwargs, active_nodes, inactive_nodes) ==
    [tag |-> tag, request_var |-> request_var, view_name |-> view_name,
     args |-> args, kwargs |-> kwargs,
     active_nodes |-> active_nodes, inactive_nodes |-> inactive_nodes]

\* tag_args[n:]
From(tag_args, n) == SubSeq(tag_args, n + 1, Len(tag_args))

\* line 50 testing for fewer than two words
do_ifactive_short_check(tag_args, body) ==
    IF Len(tag_args) < 2
    THEN [outcome |-> "TemplateSyntaxError", node |-> None]
    ELSE IF Len(tag_args) < 3
         THEN [outcome |-> "IndexError", node |-> None]
         ELSE LET parsed == _parse_url_args(From(tag_args, 3))
              IN  IF parsed.outcome # "ok"
                  THEN [outcome |-> parsed.outcome, node |-> None]
                  ELSE [outcome |-> "ok",
                        node |-> Some(ActiveNode("ifactive", tag_args[2].text,
                                     tag_args[3].text, parsed.args, parsed.kwargs,
                                     body.active, body.else))]

\* do_ifactive(parser, token): tag_args is token.contents.split(' '), body the
\* text of the block up to {% else %} or {% endifactive %} and, when there is
\* an {% else %}, the text after it
do_ifactive(tag_args, body) ==
    IF Len(tag_args) < 3
    THEN [outcome |-> "TemplateSyntaxError", node |-> None]
    ELSE LET parsed == _parse_url_args(From(tag_args, 3))
         IN  IF parsed.outcome # "ok"
             THEN [outcome |-> parsed.outcome, node |-> None]
             ELSE [outcome |-> "ok",
                   node |-> Some(ActiveNode("ifactive", tag_args[2].text,
                                tag_args[3].text, parsed.args, parsed.kwargs,
                                body.active, body.else))]

CLASS_ACTIVE == "class=\"active\""

\* line 168 passing an else branch that renders the empty class
do_activeif_with_else(tag_args) ==
    IF Len(tag_args) < 2
    THEN [outcome |-> "IndexError", node |-> None]
    ELSE LET parsed == _parse_url_args(From(tag_args, 2))
         IN  IF parsed.outcome # "ok"
             THEN [outcome |-> parsed.outcome, node |-> None]
             ELSE [outcome |-> "ok",
                   node |-> Some(ActiveNode("activeif", "request", tag_args[2].text,
                                parsed.args, parsed.kwargs, CLASS_ACTIVE,
                                Some("class=\"\"")))]

\* do_activeif(parser, token)
do_activeif(tag_args) ==
    IF Len(tag_args) < 2
    THEN [outcome |-> "IndexError", node |-> None]
    ELSE LET parsed == _parse_url_args(From(tag_args, 2))
         IN  IF parsed.outcome # "ok"
             THEN [outcome |-> parsed.outcome, node |-> None]
             ELSE [outcome |-> "ok",
                   node |-> Some(ActiveNode("activeif", "request", tag_args[2].text,
                                parsed.args, parsed.kwargs, CLASS_ACTIVE, None))]

(***************************************************************************)
(* ActiveNode.render                                                       *)
(***************************************************************************)
\* line 84 the other way round: default_args.update(resolved_kwargs), which
\* lets the tag's value win and writes into the dict held by the cache
MergeDefaultsTagWins(resolved_kwargs, default_args) ==
    [resolved_kwargs |-> DictUpdate(default_args, resolved_kwargs),
     default_args |-> DictUpdate(default_args, resolved_kwargs)]

\* resolved_kwargs.update(default_args): both dicts as they are afterwards
MergeDefaults(resolved_kwargs, default_args) ==
    [resolved_kwargs |-> DictUpdate(resolved_kwargs, default_args),
     default_args |-> default_args]

\* lines 89-92
RenderInactive(n, cache, nwalks) ==
    IF n.inactive_nodes # None
    THEN [outcome |-> "ok", branch |-> "inactive", value |-> n.inactive_nodes[1],
          cache |-> cache, walks |-> nwalks]
    ELSE [outcome |-> "ok", branch |-> "none", value |-> "",
          cache |-> cache, walks |-> nwalks]

\* line 78 reading request._view_func directly, without getattr's default
RenderMatchNoGetattr(n, context, attrs, request, lk) ==
    IF request \notin Requests \/ attrs[request] = None
    THEN [outcome |-> "AttributeError", branch |-> "none", value |-> "",
          cache |-> lk.cache, walks |-> lk.walks]
    ELSE IF attrs[request][1]._view_func = lk.ret[1][1]
              /\ attrs[request][1]._view_args = ResolveArgs(n.args, context)
              /\ attrs[request][1]._view_kwargs =
                     DictUpdate(ResolveKwargs(n.kwargs, context), lk.ret[1][2])
         THEN [outcome |-> "ok", branch |-> "active", value |-> n.active_nodes,
               cache |-> lk.cache, walks |-> lk.walks]
         ELSE RenderInactive(n, lk.cache, lk.walks)

\* lines 78-92, the lookup of line 76 having returned lk.ret
RenderMatch(n, context, attrs, request, lk) ==
    LET view         == lk.ret[1][1]
        default_args == lk.ret[1][2]
    IN  IF getattr_view_func(attrs, request) = Some(view)
        THEN IF attrs[request][1]._view_args = ResolveArgs(n.args, context)
             THEN LET m == MergeDefaults(ResolveKwargs(n.kwargs, context), default_args)
                      \* default_args is the dict the cache entry holds
                      c == Some(DictSet(lk.cache[1], n.view_name,
                                        <<view, m.default_args>>))
                  IN  IF attrs[request][1]._view_kwargs = m.resolved_kwargs
                      THEN [outcome |-> "ok", branch |-> "active",
                            value |-> n.active_nodes, cache |-> c, walks |-> lk.walks]
                      ELSE RenderInactive(n, c, lk.walks)
             ELSE RenderInactive(n, lk.cache, lk.walks)
        ELSE RenderInactive(n, lk.cache, lk.walks)

\* lines 74-78 with the request inspected before the name is looked up
render_stash_first(n, context, attrs, cache, resolver, nwalks) ==
    LET rq == VariableResolve(n.request_var, context)
    IN  IF ~rq.found
        THEN [outcome |-> "VariableDoesNotExist", branch |-> "none", value |-> "",
              cache |-> cache, walks |-> nwalks]
        ELSE IF getattr_view_func(attrs, rq.value) = None
             THEN RenderInactive(n, cache, nwalks)
             ELSE LET lk == _get_view_and_default_args(n.view_name, cache,
                                                      resolver, nwalks)
                  IN  IF lk.outcome # "ok"
                      THEN [outcome |-> lk.outcome, branch |-> "none", value |-> "",
                            cache |-> lk.cache, walks |-> lk.walks]
                      ELSE RenderMatch(n, context, attrs, rq.value, lk)

\* ActiveNode.render(self, context): what is returned or raised, the branch
\* that was rendered, and the cache and the walk count afterwards
render(n, context, attrs, cache, resolver, nwalks) ==
    LET rq == VariableResolve(n.request_var, context)
    IN  IF ~rq.found
        THEN [outcome |-> "VariableDoesNotExist", branch |-> "none", value |-> "",
              cache |-> cache, walks |-> nwalks]
        ELSE LET lk == _get_view_and_default_args(n.view_name, cache, resolver, nwalks)
             IN  IF lk.outcome # "ok"
                 THEN [outcome |-> lk.outcome, branch |-> "none", value |-> "",
                       cache |-> lk.cache, walks |-> lk.walks]
                 ELSE RenderMatch(n, context, attrs, rq.value, lk)

(***************************************************************************)
(* The state machine. routes is the route table get_resolver(None) gives,   *)
(* stash the attributes the hook sets on each request object, node the     *)
(* ActiveNode built last. last is the operation called last with its       *)
(* inputs and what it returned or raised; hooked is, per request, the      *)
(* arguments of the last process_view call on it; walks counts the walks   *)
(* of the route table.                                                     *)
(***************************************************************************)
Idle ==
    [op |-> "none", outcome |-> "ok", branch |-> "none", value |-> "",
     context |-> {}, name |-> "", tag_args |-> <<>>, ret |-> None,
     arg |-> None, pm |-> None]

Init ==
    /\ routes = Resolver({}, <<>>)
    /\ _view_name_cache = None
    /\ walks = 0
    /\ stash = [r \in Requests |-> None]
    /\ hooked = [r \in Requests |-> None]
    /\ node = None
    /\ last = Idle

\* the project's urlconf gains an entry: n is appended to the url_patterns of
\* the resolver at path
UrlconfAdd(path, n) ==
    /\ routes' = AppendAt(routes, path, n)
    /\ last' = [Idle EXCEPT !.op = "urlconf"]
    /\ UNCHANGED <<_view_name_cache, walks, stash, hooked, node>>

ProcessView(request, view_func, view_args, view_kwargs) ==
    /\ stash' = process_view(stash, request, view_func, view_args, view_kwargs)
    /\ hooked' = [hooked EXCEPT ![request] =
                     Some([_view_func |-> view_func, _view_args |-> view_args,
                           _view_kwargs |-> view_kwargs])]
    /\ last' = [Idle EXCEPT !.op = "process_view"]
    /\ UNCHANGED <<routes, _view_name_cache, walks, node>>

DoIfActive(tag_args, body) ==
    LET r == do_ifactive(tag_args, body)
    IN  /\ node' = IF r.outcome = "ok" THEN r.node ELSE node
        /\ last' = [Idle EXCEPT !.op = "do_ifactive", !.outcome = r.outcome,
                                !.tag_args = tag_args]
        /\ UNCHANGED <<routes, _view_name_cache, walks, stash, hooked>>

DoActiveIf(tag_args) ==
    LET r == do_activeif(tag_args)
    IN  /\ node' = IF r.outcome = "ok" THEN r.node ELSE node
        /\ last' = [Idle EXCEPT !.op = "do_activeif", !.outcome = r.outcome,
                                !.tag_args = tag_args]
        /\ UNCHANGED <<routes, _view_name_cache, walks, stash, hooked>>

Render(context) ==
    /\ node # None
    /\ LET r == render(node[1], context, stash, _view_name_cache, routes, walks)
       IN  /\ _view_name_cache' = r.cache
           /\ walks' = r.walks
           /\ last' = [Idle EXCEPT !.op = "render", !.outcome = r.outcome,
                                   !.branch = r.branch, !.value = r.value,
                                   !.context = context, !.name = node[1].view_name]
    /\ UNCHANGED <<routes, stash, hooked, node>>

GetViewAndDefaultArgs(view_name) ==
    LET r == _get_view_and_default_args(view_name, _view_name_cache, routes, walks)
    IN  /\ _view_name_cache' = r.cache
        /\ walks' = r.walks
        /\ last' = [Idle EXCEPT !.op = "lookup", !.outcome = r.outcome,
                                !.name = view_name, !.ret = r.ret]
        /\ UNCHANGED <<routes, stash, hooked, node>>

\* a direct call _get_patterns_map(get_resolver(None), default_args)
GetPatternsMap(default_args) ==
    /\ last' = [Idle EXCEPT !.op = "_get_patterns_map", !.arg = default_args,
                            !.pm = Some(_get_patterns_map(routes, default_args))]
    /\ UNCHANGED <<routes, _view_name_cache, walks, stash, hooked, node>>

(***************************************************************************)
(* Inputs.                                                                 *)
(***************************************************************************)
\* every sequence over S of length at most n
RECURSIVE SeqsUpTo(_, _)
SeqsUpTo(S, n) ==
    IF n = 0 THEN {<<>>}
    ELSE LET shorter == SeqsUpTo(S, n - 1)
         IN  shorter \cup {Append(q, x) : q \in shorter, x \in S}

\* a pattern declared by import path, and one declared by the function itself
ByPath(name, path, default_args) ==
    Pattern(name, Some(path), get_callable(path), default_args)

ByFunction(name, view, default_args) == Pattern(name, None, view, default_args)

\* a word of a tag read as a name, and a word read as a bit of arguments
Word(text) == [text |-> text, args |-> <<[eq |-> FALSE, k |-> "", v |-> text]>>]

Bit(args) == [text |-> "", args |-> args]

Pos(v) == [eq |-> FALSE, k |-> "", v |-> v]

Kw(k, v) == [eq |-> TRUE, k |-> k, v |-> v]

\* the block bodies: with and without {% else %}
Bodies == {[active |-> "<active>", else |-> None],
           [active |-> "<active>", else |-> Some("<else>")]}

\* -------- Spec: every operation, small inputs
SpecEntries ==
    {ByPath(Some("home"), "pkg.v1", {}),
     ByPath(Some("home"), "pkg.v2", {<<"a", "1">>}),
     Resolver({<<"a", "2">>}, <<>>)}

SpecNames == {"home", "pkg.v1", "nosuch"}

SpecKwargs == {{}, {<<"a", "1">>}}

SpecIfActive ==
    {<<Word("ifactive")>>, <<Word("ifactive"), Word("request")>>}
    \cup {<<Word("ifactive"), Word("request"), Word(v)>> : v \in {"home", "nosuch"}}
    \cup {<<Word("ifactive"), Word("request"), Word("home"), Bit(<<a>>)>> :
            a \in {Kw("a", "'1'"), Kw(NonAsciiKey, "'1'")}}

SpecActiveIf ==
    {<<Word("activeif")>>, <<Word("activeif"), Word("home")>>,
     <<Word("activeif"), Word("home"), Bit(<<Kw(NonAsciiKey, "x")>>)>>}

SpecContexts == {{}, {<<"request", "r1">>}}

Next ==
    \/ \E path \in ResolverPaths(routes), n \in SpecEntries :
          /\ NodeCount(routes) < MaxRouteNodes
          /\ UrlconfAdd(path, n)
    \/ \E f \in Views, k \in SpecKwargs : ProcessView("r1", f, PyTuple(<<>>), k)
    \/ \E t \in SpecIfActive, b \in Bodies : DoIfActive(t, b)
    \/ \E t \in SpecActiveIf : DoActiveIf(t)
    \/ \E c \in SpecContexts : Render(c)
    \/ \E v \in SpecNames : GetViewAndDefaultArgs(v)
    \/ \E d \in {None, Some({<<"b", "1">>})} : GetPatternsMap(d)

Spec == Init /\ [][Next]_vars

\* -------- SpecHook: the hook on two requests
HookArgs == {PyTuple(q) : q \in SeqsUpTo(KwVals, MaxArgs)}

HookKwargs == DictsOver({"a"}, KwVals)

NextHook ==
    \E r \in Requests, f \in Views, a \in HookArgs, k \in HookKwargs :
        ProcessView(r, f, a, k)

SpecHook == Init /\ [][NextHook]_vars

\* -------- SpecMap: the urlconf is loaded, then the map is built and read
MapDefaults == {{}, {<<"a", "1">>}}

MapEntries ==
    {ByPath(n, "pkg.v1", d) : n \in {None, Some("home")}, d \in MapDefaults}
    \cup {ByFunction(n, "v2", d) : n \in {None, Some("home")}, d \in MapDefaults}
    \cup {ByFunction(Some("pkg.v1"), "v2", {<<"a", "2">>})}
    \cup {Resolver(d, <<>>) : d \in {{<<"a", "2">>}, {<<"b", "2">>}}}

MapNames == {"home", "pkg.v1", "nosuch"}

MapArgs == {None, Some({}), Some({<<"a", "1">>, <<"b", "1">>})}

NextMap ==
    \/ \E path \in ResolverPaths(routes), n \in MapEntries :
          /\ _view_name_cache = None
          /\ NodeCount(routes) < MaxNodes
          /\ UrlconfAdd(path, n)
    \/ \E v \in MapNames : GetViewAndDefaultArgs(v)
    \/ \E d \in MapArgs : GetPatternsMap(d)

SpecMap == Init /\ [][NextMap]_vars

\* -------- SpecRender: one request, a urlconf of one pattern, tags with
\* arguments
RenderEntries ==
    {ByPath(Some("home"), "pkg.v1", {<<"a", "1">>}), ByFunction(Some("home"), "v2", {})}

RenderArgs == {PyTuple(q) : q \in SeqsUpTo(KwVals, MaxArgs)}

RenderKwargs == {{}, {<<"a", "1">>}, {<<"a", "2">>}}

RenderBits ==
    {<<Bit(q)>> : q \in SeqsUpTo({Pos("'1'"), Pos("x")}, MaxArgs)}
    \cup {<<Bit(<<Kw("a", e)>>)>> : e \in {"'1'", "x"}}
    \cup {<<Bit(<<Pos("x"), Kw("a", "'1'")>>)>>}

FewBits == {<<>>, <<Bit(<<Pos("'1'")>>)>>, <<Bit(<<Kw("a", "x")>>)>>}

RenderIfActive ==
    {<<Word("ifactive"), Word("request"), Word("home")>> \o bits : bits \in RenderBits}
    \cup {<<Word("ifactive"), Word("request"), Word("nosuch")>>}

RenderActiveIf ==
    {<<Word("activeif"), Word("home")>> \o bits : bits \in FewBits}
    \cup {<<Word("activeif"), Word("nosuch")>>}

\* the last context holds a plain string, not a request, under 'request'
RenderContexts ==
    {{<<"request", "r1">>}, {<<"request", "r1">>, <<"x", "2">>}, {<<"x", "2">>},
     {<<"request", "2">>}}

NextRender ==
    \/ \E n \in RenderEntries :
          /\ _view_name_cache = None
          /\ NodeCount(routes) = 0
          /\ UrlconfAdd(<<>>, n)
    \/ \E f \in Views, a \in RenderArgs, k \in RenderKwargs :
          ProcessView("r1", f, a, k)
    \/ \E t \in RenderIfActive : DoIfActive(t, [active |-> "<active>", else |-> None])
    \/ \E v \in {"home", "nosuch"}, bits \in FewBits :
          DoIfActive(<<Word("ifactive"), Word("request"), Word(v)>> \o bits,
                     [active |-> "<active>", else |-> Some("<else>")])
    \/ \E t \in RenderActiveIf : DoActiveIf(t)
    \/ \E c \in RenderContexts : Render(c)

SpecRender == Init /\ [][NextRender]_vars

\* -------- SpecDup: patterns that share a name or an import path
DupDefaults == {{}, {<<"a", "1">>}, {<<"a", "2">>}}

DupEntries ==
    {ByPath(Some("home"), "pkg.v1", d) : d \in DupDefaults}
    \cup {ByFunction(Some("home"), "v2", d) : d \in DupDefaults}
    \cup {ByPath(None, "pkg.v1", {<<"a", "2">>}), Resolver({<<"a", "2">>}, <<>>)}

DupBits == {<<>>} \cup {<<Bit(<<Kw("a", e)>>)>> : e \in Literals}

NextDup ==
    \/ \E path \in ResolverPaths(routes), n \in DupEntries :
          /\ _view_name_cache = None
          /\ NodeCount(routes) < MaxRouteNodes
          /\ UrlconfAdd(path, n)
    \/ \E f \in Views, k \in DupDefaults : ProcessView("r1", f, PyTuple(<<>>), k)
    \/ \E v \in {"home", "pkg.v1"}, bits \in DupBits :
          DoIfActive(<<Word("ifactive"), Word("request"), Word(v)>> \o bits,
                     [active |-> "<active>", else |-> None])
    \/ Render({<<"request", "r1">>})

SpecDup == Init /\ [][NextDup]_vars

(***************************************************************************)
(* The route table read directly, for the statements below: its patterns   *)
(* in depth-first order, each with the chain of default dicts above it.    *)
(***************************************************************************)
Max(S) == CHOOSE x \in S : \A y \in S : y <= x

RECURSIVE Leaves(_, _)
\* the patterns below a resolver in depth-first order; chain is the sequence
\* of dicts from the outermost down to the pattern's own default_args
Leaves(resolver, chain) ==
    LET RECURSIVE Upto(_)
        Upto(i) ==
            IF i = 0 THEN <<>>
            ELSE LET c == resolver.url_patterns[i]
                 IN  Upto(i - 1) \o
                     (IF c.kind = "resolver"
                      THEN Leaves(c, Append(chain, c.default_kwargs))
                      ELSE <<[pattern |-> c, chain |-> Append(chain, c.default_args)]>>)
    IN  Upto(Len(resolver.url_patterns))

\* the dict a chain amounts to: each key has the value of the innermost dict
\* of the chain that sets it
ChainDict(chain) ==
    LET keys == UNION {DictKeys(chain[i]) : i \in 1..Len(chain)}
        inner(k) == Max({i \in 1..Len(chain) : k \in DictKeys(chain[i])})
    IN  {<<k, DictGet(chain[inner(k)], k)>> : k \in keys}

\* the keys under which a pattern is indexed
KeysOf(pattern) ==
    {pattern.name[i] : i \in 1..Len(pattern.name)}
    \cup {pattern.callback_str[i] : i \in 1..Len(pattern.callback_str)}

RouteLeaves == Leaves(routes, <<>>)

RouteKeys == UNION {KeysOf(RouteLeaves[i].pattern) : i \in 1..Len(RouteLeaves)}

\* the place in depth-first order of the last pattern indexed under key k
LastFor(leaves, k) == Max({i \in 1..Len(leaves) : k \in KeysOf(leaves[i].pattern)})

\* the (handler, default arguments) pair of a leaf
PairOf(leaf) == <<leaf.pattern.callback, ChainDict(leaf.chain)>>

\* d is part of e: every key of d is in e with the same value
SubDict(d, e) == d \subseteq e

(***************************************************************************)
(* The statements checked.                                                 *)
(***************************************************************************)
\* the leaves a direct call _get_patterns_map(routes, last.arg) has walked
CallLeaves == Leaves(routes, <<IF last.arg = None THEN {} ELSE last.arg[1]>>)

\* C9: in the map _get_patterns_map returns, the default arguments recorded
\* under a key are the caller's default_args overlaid by the defaults of every
\* enclosing nested resolver from the outermost to the innermost and then by
\* the pattern's own defaults, the inner dict winning on a shared key, and
\* nothing else (no default of a sibling); the caller's default_args dict is
\* the same after the call.
C9_DefaultsFollowNesting ==
    last.op = "_get_patterns_map" =>
        LET pm == last.pm[1]
        IN  /\ pm.default_args = (IF last.arg = None THEN {} ELSE last.arg[1])
            /\ DictKeys(pm.patterns_map) =
                   UNION {KeysOf(CallLeaves[i].pattern) : i \in 1..Len(CallLeaves)}
            /\ \A k \in DictKeys(pm.patterns_map) :
                   DictGet(pm.patterns_map, k) = PairOf(CallLeaves[LastFor(CallLeaves, k)])

\* C9 witness: the map was built with a non-empty default_args for a table in
\* which a pattern inside a nested resolver overrides a default of that
\* resolver and a sibling pattern follows the resolver.
C9_Witness ==
    /\ last.op = "_get_patterns_map"
    /\ last.arg # None
    /\ last.arg[1] # {}
    /\ \E i, j \in 1..Len(CallLeaves) :
          /\ i < j
          /\ Len(CallLeaves[i].chain) = 3
          /\ DictKeys(CallLeaves[i].chain[2]) \cap DictKeys(CallLeaves[i].chain[3]) # {}
          /\ CallLeaves[i].chain[2] # CallLeaves[i].chain[3]
          /\ Len(CallLeaves[j].chain) = 2
          /\ CallLeaves[j].pattern.name # None
          /\ CallLeaves[i].pattern.name # None
          /\ CallLeaves[i].pattern.name # CallLeaves[j].pattern.name

\* a leaf with both a name and an import-path string
HasBoth(leaf) == leaf.pattern.name # None /\ leaf.pattern.callback_str # None

\* no pattern visited after leaf i is indexed under one of its keys
Unshadowed(leaves, i) ==
    \A j \in (i + 1)..Len(leaves) :
        KeysOf(leaves[j].pattern) \cap KeysOf(leaves[i].pattern) = {}

\* what a lookup returned is what the index holds
LookupReadsIndex ==
    last.op = "lookup" =>
        IF last.name \in DictKeys(_view_name_cache[1])
        THEN last.outcome = "ok"
             /\ last.ret = Some(DictGet(_view_name_cache[1], last.name))
        ELSE last.outcome = "KeyError" /\ last.ret = None

\* C7 as stated: for every pattern with both a name and an import-path
\* string the two lookups return the same pair, and every name and import
\* path of the table is found.
C7_Original ==
    _view_name_cache # None =>
        /\ LookupReadsIndex
        /\ \A i \in 1..Len(RouteLeaves) :
              /\ KeysOf(RouteLeaves[i].pattern) \subseteq DictKeys(_view_name_cache[1])
              /\ HasBoth(RouteLeaves[i]) =>
                    DictGet(_view_name_cache[1], RouteLeaves[i].pattern.name[1]) =
                    DictGet(_view_name_cache[1], RouteLeaves[i].pattern.callback_str[1])

\* C7 amended: for every pattern with both a name and an import-path string
\* whose name and import path are not keys of a pattern visited later, the
\* two lookups return the same pair, that pattern's handler and accumulated
\* defaults; and every name and import path of the table, at any depth, is
\* found by lookup.
C7_NameAndPathAgree ==
    _view_name_cache # None =>
        /\ LookupReadsIndex
        /\ \A i \in 1..Len(RouteLeaves) :
              /\ KeysOf(RouteLeaves[i].pattern) \subseteq DictKeys(_view_name_cache[1])
              /\ (HasBoth(RouteLeaves[i]) /\ Unshadowed(RouteLeaves, i)) =>
                    /\ DictGet(_view_name_cache[1], RouteLeaves[i].pattern.name[1]) =
                          PairOf(RouteLeaves[i])
                    /\ DictGet(_view_name_cache[1], RouteLeaves[i].pattern.callback_str[1]) =
                          PairOf(RouteLeaves[i])

\* C7 witness: a lookup by import path has returned the entry of a pattern
\* that sits inside a nested resolver with defaults, has a name too, and
\* follows another indexed pattern.
C7_Witness ==
    /\ last.op = "lookup"
    /\ last.outcome = "ok"
    /\ \E i \in 2..Len(RouteLeaves) :
          /\ HasBoth(RouteLeaves[i])
          /\ Unshadowed(RouteLeaves, i)
          /\ Len(RouteLeaves[i].chain) = 2
          /\ RouteLeaves[i].chain[1] # {}
          /\ KeysOf(RouteLeaves[i - 1].pattern) # {}
          /\ last.name = RouteLeaves[i].pattern.callback_str[1]
          /\ last.ret = Some(PairOf(RouteLeaves[i]))

\* C3: after process_view the request's stash holds exactly that call's
\* handler, a list with the elements of view_args in their order, and
\* view_kwargs; after any sequence of calls every request's stash is that of
\* the last call made on it, and a request never called on has none.
C3_StashIsLastCall ==
    \A r \in Requests :
        IF hooked[r] = None
        THEN stash[r] = None
        ELSE /\ stash[r] # None
             /\ stash[r][1]._view_func = hooked[r][1]._view_func
             /\ stash[r][1]._view_args.type = "list"
             /\ stash[r][1]._view_args.items = hooked[r][1]._view_args.items
             /\ stash[r][1]._view_kwargs = hooked[r][1]._view_kwargs

\* C3 witness: two requests hold different stashes, one with two positional
\* arguments in the order given and a keyword argument.
C3_Witness ==
    /\ last.op = "process_view"
    /\ stash["r1"] # None
    /\ stash["r2"] # None
    /\ stash["r1"][1]._view_args.items = <<"2", "1">>
    /\ stash["r1"][1]._view_kwargs = {<<"a", "2">>}
    /\ stash["r1"][1]._view_func # stash["r2"][1]._view_func
    /\ stash["r2"][1]._view_args.items = <<>>

(***************************************************************************)
(* The match rule, read off the state after a render: node is the node     *)
(* rendered, last.context the context it was rendered against, routes the  *)
(* route table the index was built from (in SpecRender and SpecDup the     *)
(* urlconf is complete before the first lookup).                           *)
(***************************************************************************)
\* the request variable of the node is in the context
RequestFound == node[1].request_var \in DictKeys(last.context)

\* the context value the request variable resolves to
TheRequest == DictGet(last.context, node[1].request_var)

\* the request object carries a stash
Stashed == TheRequest \in Requests /\ stash[TheRequest] # None

TheStash == stash[TheRequest][1]

\* the view name of the node is a name or an import path of the route table
Resolves == node[1].view_name \in RouteKeys

\* the (handler, default arguments) pair the view name resolves to: those of
\* the last pattern of the route table indexed under it
Target == PairOf(RouteLeaves[LastFor(RouteLeaves, node[1].view_name)])

SameHandler == TheStash._view_func = Target[1]

SameArgs ==
    /\ Len(TheStash._view_args.items) = Len(node[1].args)
    /\ \A i \in 1..Len(node[1].args) :
          TheStash._view_args.items[i] = FilterResolve(node[1].args[i], last.context)

\* the request's keyword arguments are the tag's resolved ones overlaid with
\* the target's defaults
SameKwargs ==
    /\ DictKeys(TheStash._view_kwargs) = DictKeys(node[1].kwargs) \cup DictKeys(Target[2])
    /\ \A k \in DictKeys(TheStash._view_kwargs) :
          DictGet(TheStash._view_kwargs, k) =
              IF k \in DictKeys(Target[2])
              THEN DictGet(Target[2], k)
              ELSE FilterResolve(DictGet(node[1].kwargs, k), last.context)

Matches ==
    RequestFound /\ Stashed /\ Resolves /\ SameHandler /\ SameArgs /\ SameKwargs

\* the tag was written without arguments
BareTag == node[1].args = <<>> /\ node[1].kwargs = {}

\* the active branch is rendered exactly when the request matches
ActiveIffMatches ==
    /\ (last.branch = "active") <=> Matches
    /\ last.branch = "active" =>
          last.outcome = "ok" /\ last.value = node[1].active_nodes

\* C1 as stated: render returns the active branch if and only if the handler
\* is the target's, the positional arguments are equal and the keyword
\* arguments equal the tag's overlaid with the defaults; and a tag without
\* arguments does not match a request to the same handler that carries
\* arguments.
C1_Original ==
    last.op = "render" =>
        /\ ActiveIffMatches
        /\ (RequestFound /\ Stashed /\ Resolves /\ SameHandler /\ BareTag
              /\ (TheStash._view_args.items # <<>> \/ TheStash._view_kwargs # {}))
             => last.branch # "active"

\* C1 amended: the same equivalence; and a tag without arguments does not
\* match a request to the same handler that carries positional arguments,
\* or keyword arguments other than exactly the target's defaults.
C1_ActiveIffMatch ==
    last.op = "render" =>
        /\ ActiveIffMatches
        /\ (RequestFound /\ Stashed /\ Resolves /\ SameHandler /\ BareTag
              /\ (TheStash._view_args.items # <<>>
                    \/ TheStash._view_kwargs # Target[2]))
             => last.branch # "active"

\* C1 witness: the active branch was rendered for a tag whose keyword
\* argument resolves to a value other than the default of the same key, the
\* request carrying the default.
C1_Witness ==
    /\ last.op = "render"
    /\ last.branch = "active"
    /\ "a" \in DictKeys(node[1].kwargs)
    /\ FilterResolve(DictGet(node[1].kwargs, "a"), last.context) = "2"
    /\ TheStash._view_kwargs = {<<"a", "1">>}

\* C2: when the name resolves and the request does not match (another
\* handler, other arguments, or no stash at all), render returns the else
\* branch if the tag has one and the empty string if not, and does not raise.
C2_InactiveOtherwise ==
    (last.op = "render" /\ RequestFound /\ Resolves /\ ~Matches) =>
        /\ last.outcome = "ok"
        /\ IF node[1].inactive_nodes # None
           THEN last.branch = "inactive" /\ last.value = node[1].inactive_nodes[1]
           ELSE last.branch = "none" /\ last.value = ""

\* C2 witness: the else branch was rendered for a request the hook never ran
\* on, the name being in the index.
C2_Witness ==
    /\ last.op = "render"
    /\ RequestFound
    /\ Resolves
    /\ TheRequest \in Requests
    /\ stash[TheRequest] = None
    /\ last.branch = "inactive"
    /\ last.value = "<else>"

\* C6: the node activeif builds reads the request from the context variable
\* 'request' and has no else branch; rendered for a name of the index it
\* emits class="active" when the request matches (the match rule of
\* ifactive) and the empty string when it does not.
C6_ActiveIfEmitsClass ==
    (node # None /\ node[1].tag = "activeif") =>
        /\ node[1].request_var = "request"
        /\ node[1].inactive_nodes = None
        /\ (last.op = "render" /\ RequestFound /\ Resolves) =>
              /\ last.outcome = "ok"
              /\ last.value = IF Matches THEN CLASS_ACTIVE ELSE ""

\* C6 witness: an activeif node with a keyword argument has emitted
\* class="active".
C6_Witness ==
    /\ node # None
    /\ node[1].tag = "activeif"
    /\ node[1].kwargs # {}
    /\ last.op = "render"
    /\ last.value = CLASS_ACTIVE

\* the index holds, for every key of the route table, the pair of the last
\* pattern in depth-first order indexed under it, and nothing else
IndexIsLastPattern ==
    _view_name_cache # None =>
        /\ DictKeys(_view_name_cache[1]) = RouteKeys
        /\ \A k \in RouteKeys :
              DictGet(_view_name_cache[1], k) = PairOf(RouteLeaves[LastFor(RouteLeaves, k)])

\* the stash is one a request handled by the pattern of this leaf has: the
\* pattern's handler, and keyword arguments that include its defaults
HandledBy(leaf) ==
    /\ Stashed
    /\ TheStash._view_func = leaf.pattern.callback
    /\ SubDict(ChainDict(leaf.chain), TheStash._view_kwargs)

\* the places before the last one of the patterns indexed under the node's name
EarlierSameKey ==
    {i \in 1..(LastFor(RouteLeaves, node[1].view_name) - 1) :
        node[1].view_name \in KeysOf(RouteLeaves[i].pattern)}

\* two dicts give different values to a key both set
Conflict(d, e) ==
    \E k \in DictKeys(d) \cap DictKeys(e) : DictGet(d, k) # DictGet(e, k)

\* C10 as stated: the index keeps the entry of the pattern visited last; the
\* active branch is rendered only for requests handled by that pattern's
\* handler with its defaults, never for a request handled by an earlier
\* pattern of the same key whose handler or defaults differ.
C10_Original ==
    /\ IndexIsLastPattern
    /\ (last.op = "render" /\ last.branch = "active") =>
          /\ HandledBy(RouteLeaves[LastFor(RouteLeaves, node[1].view_name)])
          /\ \A i \in EarlierSameKey :
                PairOf(RouteLeaves[i]) # Target => ~HandledBy(RouteLeaves[i])

\* C10 amended: the index keeps the entry of the pattern visited last; the
\* active branch is rendered only for requests whose stash has that
\* pattern's handler and includes its defaults, never for a request handled
\* by an earlier pattern of the same key whose handler differs or whose
\* defaults give another value to a key the last pattern's defaults set too.
C10_LastPatternWins ==
    /\ IndexIsLastPattern
    /\ (last.op = "render" /\ last.branch = "active") =>
          /\ HandledBy(RouteLeaves[LastFor(RouteLeaves, node[1].view_name)])
          /\ \A i \in EarlierSameKey :
                (RouteLeaves[i].pattern.callback # Target[1]
                   \/ Conflict(ChainDict(RouteLeaves[i].chain), Target[2]))
                => ~HandledBy(RouteLeaves[i])

\* C10 witness: the active branch was rendered for a name that an earlier
\* pattern with another handler and conflicting defaults carries too.
C10_Witness ==
    /\ last.op = "render"
    /\ last.branch = "active"
    /\ \E i \in EarlierSameKey :
          /\ RouteLeaves[i].pattern.callback # Target[1]
          /\ Conflict(ChainDict(RouteLeaves[i].chain), Target[2])

\* the keys of the index, none while it is not built
IndexKeys == IF _view_name_cache = None THEN {} ELSE DictKeys(_view_name_cache[1])

\* the operation called last has looked a name up
LookedUp ==
    \/ last.op = "lookup"
    \/ last.op = "render" /\ last.outcome # "VariableDoesNotExist"

\* C4: over any sequence of lookups, renders and changes of the route table,
\* the route table is walked at most once, by the first lookup; once built
\* the index is never rebuilt and its entries never change.
C4_BuiltOnce ==
    /\ [](/\ walks <= 1
          /\ (_view_name_cache = None) <=> (walks = 0)
          /\ LookedUp => _view_name_cache # None)
    /\ [][_view_name_cache # None =>
             (_view_name_cache' = _view_name_cache /\ walks' = walks)]_vars

\* C4 witness: the active branch was rendered with non-empty defaults merged
\* in, by an index built before the route table changed.
C4_Witness ==
    /\ last.op = "render"
    /\ last.branch = "active"
    /\ _view_name_cache # None
    /\ DictGet(_view_name_cache[1], last.name)[2] # {}
    /\ _view_name_cache[1] # _get_patterns_map(routes, None).patterns_map

\* C8: a lookup raises KeyError exactly when the name is not a key of the
\* index; render raises it whatever the request's state, before any branch
\* is rendered; the index is left built and unchanged, and a name of the
\* index is returned its entry.
C8_LookupMiss ==
    /\ [](/\ last.op = "lookup" =>
                IF last.name \in IndexKeys
                THEN /\ last.outcome = "ok"
                     /\ last.ret = Some(DictGet(_view_name_cache[1], last.name))
                ELSE last.outcome = "KeyError"
          /\ (last.op = "render" /\ RequestFound) =>
                ((last.outcome = "KeyError") <=>
                     (last.name \notin IndexKeys))
          /\ last.outcome = "KeyError" =>
                (_view_name_cache # None /\ last.branch = "none" /\ last.value = ""))
    /\ [][(last'.outcome = "KeyError" /\ _view_name_cache # None) =>
             _view_name_cache' = _view_name_cache]_vars

\* C8 witness: render has raised KeyError for a request that carries a stash,
\* from a tag with an else branch, the index holding other names.
C8_Witness ==
    /\ last.op = "render"
    /\ last.outcome = "KeyError"
    /\ stash["r1"] # None
    /\ node[1].inactive_nodes # None
    /\ _view_name_cache # None
    /\ _view_name_cache[1] # {}

\* some arg of the bits from word n on is a keyword with a non-ASCII name
HasNonAsciiKey(tag_args, n) ==
    \E i \in (n + 1)..Len(tag_args) :
        \E j \in 1..Len(tag_args[i].args) :
            tag_args[i].args[j].eq /\ tag_args[i].args[j].k \notin AsciiKeys

\* C5 as stated: the only error outcome of any operation is the lookup miss.
C5_Original == last.outcome \in {"ok", "KeyError"}

\* C5 amended: the error outcomes are the lookup miss (a render or lookup of
\* a name not in the index), TemplateSyntaxError (an ifactive tag of fewer
\* than three words), IndexError (an activeif tag of one word),
\* UnicodeEncodeError (a keyword argument with a non-ASCII name) and
\* VariableDoesNotExist (a render whose request variable is not in the
\* context); each is raised in exactly that case and every other input
\* yields a normal result.
C5_ErrorOutcomes ==
    /\ last.outcome \in {"ok", "KeyError", "TemplateSyntaxError", "IndexError",
                          "UnicodeEncodeError", "VariableDoesNotExist"}
    /\ (last.outcome = "TemplateSyntaxError") <=>
          (last.op = "do_ifactive" /\ Len(last.tag_args) < 3)
    /\ (last.outcome = "IndexError") <=>
          (last.op = "do_activeif" /\ Len(last.tag_args) < 2)
    /\ (last.outcome = "UnicodeEncodeError") <=>
          \/ last.op = "do_ifactive" /\ HasNonAsciiKey(last.tag_args, 3)
          \/ last.op = "do_activeif" /\ HasNonAsciiKey(last.tag_args, 2)
    /\ (last.outcome = "VariableDoesNotExist") <=>
          (last.op = "render" /\ ~RequestFound)
    /\ (last.outcome = "KeyError") <=>
          (LookedUp /\ last.name \notin IndexKeys)

\* C5 witness: parsing an ifactive tag has raised TemplateSyntaxError.
C5_Witness ==
    /\ last.op = "do_ifactive"
    /\ last.outcome = "TemplateSyntaxError"
    /\ Len(last.tag_args) = 2

====
